---- MODULE Spec2Model ----
(***************************************************************************)
(* Model of yml2binddb.py: one run of the converter, from opening the      *)
(* source document to process exit.                                        *)
(*                                                                         *)
(* Strings that the program takes apart (hostnames, ip literals, the mail  *)
(* address, domainBase) are sequences of tokens in which "." and "@" are   *)
(* tokens of their own, so that find('.'), split('.'), endswith('.') and   *)
(* replace('@', '.') are computed and not assumed.  A YAML mapping is a    *)
(* function whose DOMAIN is the set of keys present; a YAML scalar whose   *)
(* content is never read is represented by its Python type tag.            *)
(* Output is a sequence of line records per stream.                        *)
(***************************************************************************)
EXTENDS Integers, Sequences, FiniteSets, TLC

VARIABLES input, definition, pc, i, stdout, stderr, ofile, ihandle, ohandle,
          exitCode, raised

vars == <<input, definition, pc, i, stdout, stderr, ofile, ihandle, ohandle,
          exitCode, raised>>

(* ------------------------------ bounds --------------------------------- *)
MaxNs == 2
MaxHosts == 2
MaxOffences == 2

(* -------------------------- string helpers ----------------------------- *)
\* s.find('.') != -1
HasDot(s) == \E n \in DOMAIN s : s[n] = "."

\* s.endswith('.')
EndsWithDot(s) == Len(s) > 0 /\ s[Len(s)] = "."

SplitFirstWrong(s) == IF HasDot(s) THEN SubSeq(s, 1, Len(s) - 1) ELSE s

\* s.split('.')[0]
RECURSIVE SplitFirst(_)
SplitFirst(s) ==
    IF s = <<>> THEN <<>>
    ELSE IF Head(s) = "." THEN <<>>
    ELSE <<Head(s)>> \o SplitFirst(Tail(s))

\* s.split('.')[-1]
RECURSIVE SplitLast(_)
SplitLast(s) == IF HasDot(s) THEN SplitLast(Tail(s)) ELSE s

\* mail.replace('@', '.') + '.'
MailRule(mail) ==
    [n \in 1..Len(mail) |-> IF mail[n] = "@" THEN "." ELSE mail[n]] \o <<".">>

\* '{}.{}'.format(a, b)
DotJoin(a, b) == a \o <<".">> \o b

(* --------------------------- schema tables ----------------------------- *)
TOP_LEVEL_REQUIRED ==
    << [key |-> "ttl",         types |-> {"str"}],
       [key |-> "domainBase",  types |-> {"str"}],
       [key |-> "networkBase", types |-> {"str"}],
       [key |-> "soa",         types |-> {"dict"}],
       [key |-> "nameservers", types |-> {"list"}],
       [key |-> "hosts",       types |-> {"list"}] >>

SOA_REQUIRED ==
    << [key |-> "mail",    types |-> {"str"}],
       [key |-> "refresh", types |-> {"int", "str"}],
       [key |-> "retry",   types |-> {"int", "str"}],
       [key |-> "expire",  types |-> {"int", "str"}],
       [key |-> "ttl",     types |-> {"int", "str"}] >>

SOA_OPTIONAL == << [key |-> "serial", types |-> {"int"}] >>

NS_REQUIRED == <<"hostname">>

HOST_REQUIRED == <<"hostname", "ip">>

\* isinstance(value, t) for some t of types, on the type tag of the value
IsInstance(tag, types) == tag \in types

(* ------------------------- input documents ----------------------------- *)
SeqUpTo(S, n) == UNION {[1..m -> S] : m \in 0..n}

NsEntries ==
    { [hostname |-> <<"ns1">>],
      [hostname |-> <<"ns2", ".", "example", ".", "com", ".">>],
      [hostname |-> <<"ns3">>, master |-> FALSE],
      [hostname |-> <<"ns4", ".", "example">>, master |-> TRUE],
      [master |-> TRUE] }

HostEntries ==
    { [hostname |-> <<"www">>, ip |-> <<"10", ".", "0", ".", "0", ".", "5">>],
      [hostname |-> <<"mx", ".", "example", ".", "com", ".">>,
       ip |-> <<"10", ".", "0", ".", "0", ".", "7">>,
       description |-> <<"mail">>],
      [hostname |-> <<"db">>, ip |-> <<"9">>, description |-> <<"bare">>],
      [hostname |-> <<"gw">>, description |-> <<"noip">>],
      [ip |-> <<"10", ".", "0", ".", "0", ".", "8">>] }

GoodNameservers ==
    << [hostname |-> <<"ns2", ".", "example", ".", "com", ".">>],
       [hostname |-> <<"ns1">>, master |-> TRUE] >>

GoodHosts ==
    << [hostname |-> <<"www">>, ip |-> <<"10", ".", "0", ".", "0", ".", "5">>] >>

\* the places where the validator can find a fatal offence
TopSites == {"ttl", "domainBase", "networkBase", "soa", "nameservers", "hosts"}
SoaSites == {"soa.mail", "soa.refresh", "soa.retry", "soa.expire", "soa.ttl",
             "soa.serial"}
Sites == TopSites \cup SoaSites \cup {"dot"}

SoaKeyOf(site) ==
    CASE site = "soa.mail" -> "mail"
      [] site = "soa.refresh" -> "refresh"
      [] site = "soa.retry" -> "retry"
      [] site = "soa.expire" -> "expire"
      [] site = "soa.ttl" -> "ttl"
      [] site = "soa.serial" -> "serial"

GoodTopTag(key) ==
    CASE key \in {"ttl", "domainBase", "networkBase"} -> "str"
      [] key = "soa" -> "dict"
      [] key \in {"nameservers", "hosts"} -> "list"

\* a YAML value of another type at that key: ttl: 3600 is an int, soa: x a str
BadTopTag(key) == IF GoodTopTag(key) = "str" THEN "int" ELSE "str"

GoodSoaTag(key) ==
    CASE key = "mail" -> "str"
      [] key \in {"refresh", "expire", "serial"} -> "int"
      [] key \in {"retry", "ttl"} -> "str"

BadSoaTag(key) == IF key = "mail" THEN "int" ELSE IF key = "serial" THEN "str" ELSE "float"

\* the document in which the keys of DOMAIN k are missing or mistyped
DocOf(k, nss, hs) ==
    LET missing(site) == site \in DOMAIN k /\ k[site] = "missing"
        bad(site) == site \in DOMAIN k /\ k[site] = "bad"
    IN  [ top |-> [key \in {s \in TopSites : ~missing(s)} |->
                     IF bad(key) THEN BadTopTag(key) ELSE GoodTopTag(key)],
          ttl |-> <<"3600">>,
          domainBase |-> IF "dot" \in DOMAIN k
                         THEN <<"example", ".", "com">>
                         ELSE <<"example", ".", "com", ".">>,
          soa |-> [key \in {SoaKeyOf(s) : s \in {t \in SoaSites : ~missing(t)}} |->
                     IF \E s \in SoaSites : SoaKeyOf(s) = key /\ bad(s)
                     THEN BadSoaTag(key) ELSE GoodSoaTag(key)],
          mail |-> <<"admin", "@", "example", ".", "com">>,
          nameservers |-> nss,
          hosts |-> hs ]

NoOffence == [s \in {} |-> "bad"]

OffenceDocs ==
    UNION { {DocOf(k, GoodNameservers, GoodHosts) : k \in [S -> {"missing", "bad"}]} :
            S \in {T \in SUBSET Sites : Cardinality(T) <= MaxOffences} }

ListDocs ==
    {DocOf(NoOffence, nss, hs) : nss \in SeqUpTo(NsEntries, MaxNs),
                                 hs \in SeqUpTo(HostEntries, MaxHosts)}

GoodDoc == DocOf(NoOffence, GoodNameservers, GoodHosts)

\* parse_args: source, output, dont_abbrev, forward, reverse.
\* -f and -r are a required mutually exclusive group: exactly one is set.
Args ==
    [output : {"None", "OUTFILE"}, dont_abbrev : BOOLEAN,
     forward : BOOLEAN, reverse : BOOLEAN]

Inputs ==
    {[args |-> a, exists |-> TRUE, wellformed |-> TRUE, yml |-> d] :
        a \in {b \in Args : b.forward # b.reverse}, d \in OffenceDocs \cup ListDocs}
    \cup
    {[args |-> a, exists |-> e, wellformed |-> w, yml |-> GoodDoc] :
        a \in {b \in Args : b.forward # b.reverse},
        e \in BOOLEAN, w \in BOOLEAN}

(* ------------------------------ streams -------------------------------- *)
Diag(key, what) == [k |-> "DIAG", key |-> key, what |-> what]

Traceback(exc) == [k |-> "TRACEBACK", exc |-> exc]

NoError == [exc |-> "None", fn |-> "None"]

Init ==
    /\ input \in Inputs
    /\ definition = input.yml
    /\ pc = "open_source"
    /\ i = 1
    /\ stdout = <<>>
    /\ stderr = <<>>
    /\ ofile = <<>>
    /\ ihandle = "unopened"
    /\ ohandle = "unopened"
    /\ exitCode = -1
    /\ raised = NoError

\* sys.exit(1) after print(msg) with no file argument: the text goes to
\* sys.stdout
ExitAfterPrint(line) ==
    /\ stdout' = Append(stdout, line)
    /\ pc' = "done"
    /\ exitCode' = 1
    /\ raised' = [exc |-> "SystemExit", fn |-> "parse_yml"]
    /\ UNCHANGED <<input, definition, i, stderr, ofile, ihandle, ohandle>>

\* an exception nobody catches: the interpreter prints the traceback on
\* sys.stderr and exits with status 1; nothing after the raising statement runs
Uncaught(exc, fn) ==
    /\ stderr' = Append(stderr, Traceback(exc))
    /\ pc' = "done"
    /\ exitCode' = 1
    /\ raised' = [exc |-> exc, fn |-> fn]

(* ------------------------------ parse_yml ------------------------------ *)
\* with open(path, 'r') as f  /  except FileNotFoundError
OpenSource ==
    /\ pc = "open_source"
    /\ IF input.exists
       THEN /\ ihandle' = "open"
            /\ pc' = "read_source"
            /\ UNCHANGED <<stderr, exitCode, raised>>
       ELSE /\ stderr' = Append(stderr, Diag("source", "FileNotFound"))
            /\ pc' = "done"
            /\ exitCode' = 1
            /\ raised' = [exc |-> "SystemExit", fn |-> "parse_yml"]
            /\ UNCHANGED ihandle
    /\ UNCHANGED <<input, definition, i, stdout, ofile, ohandle>>

\* content = f.read(), then the with block closes f
ReadSource ==
    /\ pc = "read_source"
    /\ ihandle' = "closed"
    /\ pc' = "load"
    /\ UNCHANGED <<input, definition, i, stdout, stderr, ofile, ohandle,
                   exitCode, raised>>

\* yaml.load(content)  /  except yaml.YAMLError
LoadYaml ==
    /\ pc = "load"
    /\ IF input.wellformed
       THEN /\ pc' = "top"
            /\ i' = 1
            /\ UNCHANGED <<stderr, exitCode, raised>>
       ELSE /\ stderr' = stderr \o <<Diag("source", "YAMLError"),
                                     Diag("source", "err")>>
            /\ pc' = "done"
            /\ exitCode' = 1
            /\ raised' = [exc |-> "SystemExit", fn |-> "parse_yml"]
            /\ UNCHANGED i
    /\ UNCHANGED <<input, definition, stdout, ofile, ihandle, ohandle>>

\* for key in TOP_LEVEL_REQUIRED: one iteration
CheckTopLevel ==
    /\ pc = "top"
    /\ LET key == TOP_LEVEL_REQUIRED[i] IN
       IF key.key \notin DOMAIN definition.top
       THEN ExitAfterPrint(Diag(key.key, "NotFound"))
       ELSE IF ~IsInstance(definition.top[key.key], key.types)
       THEN ExitAfterPrint(Diag(key.key, "MustBe"))
       ELSE /\ IF i < Len(TOP_LEVEL_REQUIRED)
               THEN i' = i + 1 /\ pc' = pc
               ELSE i' = 1 /\ pc' = "domainBase"
            /\ UNCHANGED <<input, definition, stdout, stderr, ofile, ihandle,
                           ohandle, exitCode, raised>>

\* if not yml_obj['domainBase'].endswith('.')
CheckDomainBase ==
    /\ pc = "domainBase"
    /\ IF ~EndsWithDot(definition.domainBase)
       THEN ExitAfterPrint(Diag("domainBase", "FQDN"))
       ELSE /\ pc' = "soa_required"
            /\ i' = 1
            /\ UNCHANGED <<input, definition, stdout, stderr, ofile, ihandle,
                           ohandle, exitCode, raised>>

\* for key in SOA_REQUIRED: one iteration
CheckSoaRequired ==
    /\ pc = "soa_required"
    /\ LET key == SOA_REQUIRED[i] IN
       IF key.key \notin DOMAIN definition.soa
       THEN ExitAfterPrint(Diag("soa." \o key.key, "NotFound"))
       ELSE IF ~IsInstance(definition.soa[key.key], key.types)
       THEN ExitAfterPrint(Diag(key.key, "MustBeOneOf"))
       ELSE /\ IF i < Len(SOA_REQUIRED)
               THEN i' = i + 1 /\ pc' = pc
               ELSE i' = 1 /\ pc' = "soa_optional"
            /\ UNCHANGED <<input, definition, stdout, stderr, ofile, ihandle,
                           ohandle, exitCode, raised>>

\* for key in SOA_OPTIONAL: one iteration
CheckSoaOptional ==
    /\ pc = "soa_optional"
    /\ LET key == SOA_OPTIONAL[i] IN
       IF /\ key.key \in DOMAIN definition.soa
          /\ ~IsInstance(definition.soa[key.key], key.types)
       THEN ExitAfterPrint(Diag(key.key, "MustBe"))
       ELSE /\ IF i < Len(SOA_OPTIONAL)
               THEN i' = i + 1 /\ pc' = pc
               ELSE i' = 1 /\ pc' = "ns_required"
            /\ UNCHANGED <<input, definition, stdout, stderr, ofile, ihandle,
                           ohandle, exitCode, raised>>

\* the messages one entry of a list gets: one per required key it lacks
MissingKeyDiags(list, n, entry, required) ==
    LET lacks == SelectSeq(required, LAMBDA key : key \notin DOMAIN entry)
    IN  [m \in 1..Len(lacks) |-> Diag(<<list, n - 1, lacks[m]>>, "NotFound")]

\* for i, ns in enumerate(yml_obj['nameservers']): one iteration
CheckNameservers ==
    /\ pc = "ns_required"
    /\ IF i <= Len(definition.nameservers)
       THEN /\ stdout' = stdout \o MissingKeyDiags("nameservers", i,
                                      definition.nameservers[i], NS_REQUIRED)
            /\ i' = i + 1
            /\ pc' = pc
       ELSE /\ i' = 1
            /\ pc' = "host_required"
            /\ UNCHANGED stdout
    /\ UNCHANGED <<input, definition, stderr, ofile, ihandle, ohandle,
                   exitCode, raised>>

\* for i, host in enumerate(yml_obj['hosts']): one iteration
CheckHosts ==
    /\ pc = "host_required"
    /\ IF i <= Len(definition.hosts)
       THEN /\ stdout' = stdout \o MissingKeyDiags("hosts", i,
                                      definition.hosts[i], HOST_REQUIRED)
            /\ i' = i + 1
            /\ pc' = pc
       ELSE /\ i' = 1
            /\ pc' = "normalize_mail"
            /\ UNCHANGED stdout
    /\ UNCHANGED <<input, definition, stderr, ofile, ihandle, ohandle,
                   exitCode, raised>>

(* ------------------------------ normalize ------------------------------ *)
\* if h.find('.') != -1: h = h.split('.')[0]
HostnameRule(h) == IF HasDot(h) THEN SplitFirst(h) ELSE h

\* mail = mail.replace('@', '.') + '.'
NormalizeMail ==
    /\ pc = "normalize_mail"
    /\ definition' = [definition EXCEPT !.mail = MailRule(@)]
    /\ pc' = "normalize_ns"
    /\ i' = 1
    /\ UNCHANGED <<input, stdout, stderr, ofile, ihandle, ohandle, exitCode,
                   raised>>

\* for ns in definition['nameservers']: one iteration
NormalizeNameserver ==
    /\ pc = "normalize_ns"
    /\ IF i <= Len(definition.nameservers)
       THEN IF "hostname" \notin DOMAIN definition.nameservers[i]
            THEN /\ Uncaught("KeyError", "normalize")
                 /\ UNCHANGED <<definition, i>>
            ELSE /\ definition' = [definition EXCEPT
                        !.nameservers[i].hostname = HostnameRule(@)]
                 /\ i' = i + 1
                 /\ UNCHANGED <<pc, stderr, exitCode, raised>>
       ELSE /\ pc' = "normalize_host"
            /\ i' = 1
            /\ UNCHANGED <<definition, stderr, exitCode, raised>>
    /\ UNCHANGED <<input, stdout, ofile, ihandle, ohandle>>

\* for host in definition['hosts']: one iteration
NormalizeHost ==
    /\ pc = "normalize_host"
    /\ IF i <= Len(definition.hosts)
       THEN IF "hostname" \notin DOMAIN definition.hosts[i]
            THEN /\ Uncaught("KeyError", "normalize")
                 /\ UNCHANGED <<definition, i>>
            ELSE /\ definition' = [definition EXCEPT
                        !.hosts[i].hostname = HostnameRule(@)]
                 /\ i' = i + 1
                 /\ UNCHANGED <<pc, stderr, exitCode, raised>>
       ELSE /\ pc' = "open_output"
            /\ i' = 1
            /\ UNCHANGED <<definition, stderr, exitCode, raised>>
    /\ UNCHANGED <<input, stdout, ofile, ihandle, ohandle>>

(* -------------------------------- main --------------------------------- *)
\* print(..., file=ohandler) of toHandler, print(...) without file of toStdout
Emit(toHandler, toStdout) ==
    IF input.args.output = "None"
    THEN /\ stdout' = stdout \o toHandler \o toStdout
         /\ ofile' = ofile
    ELSE /\ ofile' = ofile \o toHandler
         /\ stdout' = stdout \o toStdout

\* if output is not None: ohandler = open(output, 'w') else sys.stdout,
\* then the if forward / elif reverse / else dispatch
OpenOutput ==
    /\ pc = "open_output"
    /\ ohandle' = IF input.args.output # "None" THEN "open" ELSE ohandle
    /\ ofile' = <<>>
    /\ pc' = IF input.args.forward \/ input.args.reverse
             THEN "header_ttl" ELSE "close_output"
    /\ UNCHANGED <<input, definition, i, stdout, stderr, ihandle, exitCode,
                   raised>>

\* if output is not None: ohandler.close(); then main returns
CloseOutput ==
    /\ pc = "close_output"
    /\ ohandle' = IF input.args.output # "None" THEN "closed" ELSE ohandle
    /\ pc' = "done"
    /\ exitCode' = 0
    /\ UNCHANGED <<input, definition, i, stdout, stderr, ofile, ihandle,
                   raised>>

(* ----------------------------- build_header ---------------------------- *)
Blank == [k |-> "BLANK"]

\* print('$TTL {}\n'.format(definition['ttl']), file=ohandler)
HeaderTtl ==
    /\ pc = "header_ttl"
    /\ Emit(<<[k |-> "TTL", ttl |-> definition.ttl], Blank>>, <<>>)
    /\ pc' = "header_soa"
    /\ UNCHANGED <<input, definition, i, stderr, ihandle, ohandle, exitCode,
                   raised>>

RECURSIVE FirstMasterWrong(_, _)
FirstMasterWrong(nss, n) ==
    IF n > Len(nss) THEN 0
    ELSE IF "master" \in DOMAIN nss[n] /\ nss[n].master THEN n
    ELSE FirstMasterWrong(nss, n + 1)

\* for ns in definition['nameservers']: if 'master' in ns: ...; break
\* the index of the entry the loop stops at, from n on; 0 for pri_dns None
RECURSIVE FirstMaster(_, _)
FirstMaster(nss, n) ==
    IF n > Len(nss) THEN 0
    ELSE IF "master" \in DOMAIN nss[n] THEN n
    ELSE FirstMaster(nss, n + 1)

\* the SOA line
SoaLine(def, pri_dns, dont_abbrev) ==
    [ k |-> "SOA",
      owner |-> IF dont_abbrev THEN def.domainBase ELSE <<"@">>,
      mname |-> DotJoin(pri_dns, def.domainBase),
      rname |-> def.mail ]

\* pri_dns selection and the SOA line; nameservers[0] of an empty list raises
HeaderSoa ==
    /\ pc = "header_soa"
    /\ LET nss == definition.nameservers
           m == FirstMaster(nss, 1)
       IN  IF m = 0 /\ Len(nss) = 0
           THEN /\ Uncaught("IndexError", "build_header")
                /\ UNCHANGED <<stdout, ofile>>
           ELSE /\ Emit(<<SoaLine(definition,
                                  nss[IF m = 0 THEN 1 ELSE m].hostname,
                                  input.args.dont_abbrev)>>, <<>>)
                /\ pc' = "header_timers"
                /\ UNCHANGED <<stderr, exitCode, raised>>
    /\ UNCHANGED <<input, definition, i, ihandle, ohandle>>

TimerLines(def) ==
    [n \in 1..4 |-> [k |-> "TIMER", name |-> SOA_REQUIRED[n + 1].key,
                     value |-> def.soa[SOA_REQUIRED[n + 1].key]]]

\* the four timer lines, then print(')\n', file=ohandler); build_header
\* returns into build_forward_db or build_reverse_db
HeaderTimers ==
    /\ pc = "header_timers"
    /\ Emit(TimerLines(definition) \o <<[k |-> ")"], Blank>>, <<>>)
    /\ pc' = IF input.args.forward THEN "forward_ns" ELSE "reverse_ns"
    /\ i' = 1
    /\ UNCHANGED <<input, definition, stderr, ihandle, ohandle, exitCode,
                   raised>>

(* --------------------- build_forward_db / build_reverse_db ------------- *)
\* the NS line of one nameserver
NsLine(ns, def, dont_abbrev) ==
    [ k |-> "NS",
      target |-> IF dont_abbrev THEN DotJoin(ns.hostname, def.domainBase)
                 ELSE ns.hostname ]

\* the prints of one host in build_forward_db: the A line goes to ohandler;
\* in the TXT print, file=ohandler is an argument of format, not of print
ForwardRecord(host, def, dont_abbrev) ==
    LET hostname == IF dont_abbrev THEN DotJoin(host.hostname, def.domainBase)
                    ELSE host.hostname
    IN  [ handler |-> <<[k |-> "A", owner |-> hostname, ip |-> host.ip]>>,
          default |-> IF "description" \in DOMAIN host
                      THEN <<[k |-> "TXT", owner |-> hostname,
                              text |-> host.description]>>
                      ELSE <<>> ]

ReverseRecordWrong(host, def, dont_abbrev) ==
    LET ip == IF dont_abbrev THEN host.ip ELSE SplitLast(host.ip)
        fqdn == IF dont_abbrev THEN DotJoin(host.hostname, def.domainBase)
                ELSE host.hostname
    IN  [ handler |-> <<[k |-> "PTR", owner |-> ip, target |-> fqdn]>>
                      \o IF "description" \in DOMAIN host
                         THEN <<[k |-> "TXT", owner |-> ip,
                                 text |-> host.description]>>
                         ELSE <<>>,
          default |-> <<>> ]

\* the prints of one host in build_reverse_db
ReverseRecord(host, def, dont_abbrev) ==
    LET ip == IF dont_abbrev THEN host.ip ELSE SplitLast(host.ip)
        fqdn == DotJoin(host.hostname, def.domainBase)
    IN  [ handler |-> <<[k |-> "PTR", owner |-> ip, target |-> fqdn]>>
                      \o IF "description" \in DOMAIN host
                         THEN <<[k |-> "TXT", owner |-> ip,
                                 text |-> host.description]>>
                         ELSE <<>>,
          default |-> <<>> ]

\* build_forward_db, for ns in definition['nameservers']: one iteration;
\* after the last one print('', file=ohandler)
ForwardNs ==
    /\ pc = "forward_ns"
    /\ IF i <= Len(definition.nameservers)
       THEN /\ Emit(<<NsLine(definition.nameservers[i], definition,
                             input.args.dont_abbrev)>>, <<>>)
            /\ i' = i + 1
            /\ pc' = pc
       ELSE /\ Emit(<<Blank>>, <<>>)
            /\ i' = 1
            /\ pc' = "forward_host"
    /\ UNCHANGED <<input, definition, stderr, ihandle, ohandle, exitCode,
                   raised>>

\* build_forward_db, for host in definition['hosts']: one iteration
ForwardHost ==
    /\ pc = "forward_host"
    /\ IF i <= Len(definition.hosts)
       THEN IF "ip" \notin DOMAIN definition.hosts[i]
            THEN /\ Uncaught("KeyError", "build_forward_db")
                 /\ UNCHANGED <<i, stdout, ofile>>
            ELSE /\ LET r == ForwardRecord(definition.hosts[i], definition,
                                           input.args.dont_abbrev)
                    IN  Emit(r.handler, r.default)
                 /\ i' = i + 1
                 /\ UNCHANGED <<pc, stderr, exitCode, raised>>
       ELSE /\ pc' = "close_output"
            /\ UNCHANGED <<i, stdout, ofile, stderr, exitCode, raised>>
    /\ UNCHANGED <<input, definition, ihandle, ohandle>>

\* build_reverse_db, for ns in definition['nameservers']: one iteration;
\* after the last one print('', file=ohandler)
ReverseNs ==
    /\ pc = "reverse_ns"
    /\ IF i <= Len(definition.nameservers)
       THEN /\ Emit(<<NsLine(definition.nameservers[i], definition,
                             input.args.dont_abbrev)>>, <<>>)
            /\ i' = i + 1
            /\ pc' = pc
       ELSE /\ Emit(<<Blank>>, <<>>)
            /\ i' = 1
            /\ pc' = "reverse_host"
    /\ UNCHANGED <<input, definition, stderr, ihandle, ohandle, exitCode,
                   raised>>

\* build_reverse_db, for host in definition['hosts']: one iteration
ReverseHost ==
    /\ pc = "reverse_host"
    /\ IF i <= Len(definition.hosts)
       THEN IF "ip" \notin DOMAIN definition.hosts[i]
            THEN /\ Uncaught("KeyError", "build_reverse_db")
                 /\ UNCHANGED <<i, stdout, ofile>>
            ELSE /\ LET r == ReverseRecord(definition.hosts[i], definition,
                                           input.args.dont_abbrev)
                    IN  Emit(r.handler, r.default)
                 /\ i' = i + 1
                 /\ UNCHANGED <<pc, stderr, exitCode, raised>>
       ELSE /\ pc' = "close_output"
            /\ UNCHANGED <<i, stdout, ofile, stderr, exitCode, raised>>
    /\ UNCHANGED <<input, definition, ihandle, ohandle>>

Next ==
    \/ OpenSource
    \/ ReadSource
    \/ LoadYaml
    \/ CheckTopLevel
    \/ CheckDomainBase
    \/ CheckSoaRequired
    \/ CheckSoaOptional
    \/ CheckNameservers
    \/ CheckHosts
    \/ NormalizeMail
    \/ NormalizeNameserver
    \/ NormalizeHost
    \/ OpenOutput
    \/ HeaderTtl
    \/ HeaderSoa
    \/ HeaderTimers
    \/ ForwardNs
    \/ ForwardHost
    \/ ReverseNs
    \/ ReverseHost
    \/ CloseOutput

Spec == Init /\ [][Next]_vars

(* ============================ properties =============================== *)
Done == pc = "done"

\* the stream main writes the zone file to
Sink == IF input.args.output = "None" THEN stdout ELSE ofile

OfKind(lines, K) == SelectSeq(lines, LAMBDA l : l.k \in K)

\* the label before the first ".", stated without recursion
BareLabel(h) ==
    CHOOSE p \in {SubSeq(h, 1, n) : n \in 0..Len(h)} :
        /\ ~HasDot(p)
        /\ Len(p) = Len(h) \/ h[Len(p) + 1] = "."

\* the part after the last ".", stated without recursion
AfterLastDot(s) ==
    CHOOSE p \in {SubSeq(s, n, Len(s)) : n \in 1..Len(s) + 1} :
        /\ ~HasDot(p)
        /\ Len(p) = Len(s) \/ s[Len(s) - Len(p)] = "."

\* the fatal checks of the validator in check order, as the schema states
\* them: 1-6 top-level keys, 7 domainBase suffix, 8-12 soa keys, 13 serial
FatalChecks == 1..13

Offends(doc, n) ==
    IF n <= 6
    THEN LET c == TOP_LEVEL_REQUIRED[n]
         IN  c.key \notin DOMAIN doc.top \/ doc.top[c.key] \notin c.types
    ELSE IF n = 7 THEN ~EndsWithDot(doc.domainBase)
    ELSE IF n <= 12
    THEN LET c == SOA_REQUIRED[n - 7]
         IN  c.key \notin DOMAIN doc.soa \/ doc.soa[c.key] \notin c.types
    ELSE "serial" \in DOMAIN doc.soa /\ doc.soa["serial"] # "int"

HasFatal(doc) == \E n \in FatalChecks : Offends(doc, n)

FirstFatal(doc) ==
    CHOOSE n \in FatalChecks :
        Offends(doc, n) /\ \A m \in FatalChecks : Offends(doc, m) => n <= m

\* the key the diagnostic of check n names
FatalKey(n) ==
    IF n <= 6 THEN TOP_LEVEL_REQUIRED[n].key
    ELSE IF n = 7 THEN "domainBase"
    ELSE IF n <= 12 THEN SOA_REQUIRED[n - 7].key
    ELSE "serial"

Loaded == input.exists /\ input.wellformed

AllDiags == OfKind(stdout \o stderr \o ofile, {"DIAG"})

\* C1: a document with a fatal offence ends the run with a non-zero exit
\* status at the first offence in check order: one diagnostic, for that
\* check, the output sink never opened and nothing written to it.
C1_FatalStopsAtFirstOffence ==
    (Done /\ Loaded /\ HasFatal(input.yml)) =>
        /\ exitCode = 1
        /\ Len(AllDiags) = 1
        /\ AllDiags[1].key \in {FatalKey(FirstFatal(input.yml)),
                                "soa." \o FatalKey(FirstFatal(input.yml))}
        /\ ohandle = "unopened"
        /\ Sink = <<>>

\* the zone-file lines of the sink, diagnostics left aside
ZoneText == SelectSeq(Sink, LAMBDA l : l.k # "DIAG")

RecordKinds == {"A", "PTR"}

CompleteZone(text) ==
    /\ Len(OfKind(text, {"TTL"})) = 1
    /\ Len(OfKind(text, {"SOA"})) = 1
    /\ Len(OfKind(text, {"TIMER"})) = 4
    /\ Len(OfKind(text, {")"})) = 1
    /\ Len(OfKind(text, {"NS"})) = Len(input.yml.nameservers)
    /\ Len(OfKind(text, RecordKinds)) = Len(input.yml.hosts)

\* C2: when the process ends, the zone text written to the sink is either
\* empty or the complete zone file, never a proper prefix of it.
C2_AllOrNothing == Done => (ZoneText = <<>> \/ CompleteZone(ZoneText))

\* C3: no validator diagnostic is written to standard output.
C3_DiagnosticsNotOnStdout == OfKind(stdout, {"DIAG"}) = <<>>

\* the host records the claim expects: the A/PTR line of each host, followed
\* by one TXT line exactly when the host has a description
RECURSIVE ExpectedBody(_)
ExpectedBody(hs) ==
    IF hs = <<>> THEN <<>>
    ELSE <<IF input.args.forward THEN "A" ELSE "PTR">>
         \o (IF "description" \in DOMAIN Head(hs) THEN <<"TXT">> ELSE <<>>)
         \o ExpectedBody(Tail(hs))

\* the lines of the sink after the header and the NS block
Body(text) == SubSeq(text, 9 + Len(input.yml.nameservers) + 2, Len(text))

\* C4: in the sink, every host with a description has exactly one TXT line
\* right after its A/PTR line, and a host without one has none.
C4_TxtFollowsRecord ==
    (Done /\ exitCode = 0) =>
        [n \in 1..Len(Body(ZoneText)) |-> Body(ZoneText)[n].k]
            = ExpectedBody(input.yml.hosts)

\* a document that passes validation and whose entries have their keys
ValidDoc(doc) ==
    /\ ~HasFatal(doc)
    /\ \A n \in DOMAIN doc.nameservers : "hostname" \in DOMAIN doc.nameservers[n]
    /\ \A n \in DOMAIN doc.hosts : {"hostname", "ip"} \subseteq DOMAIN doc.hosts[n]

\* C5: for a valid document there is one NS line per nameserver and one
\* A/PTR line per host, in input order, the NS block before the host records.
C5_OneLinePerEntryInOrder ==
    (Done /\ Loaded /\ ValidDoc(input.yml)) =>
        LET nsl == OfKind(ZoneText, {"NS"})
            rec == OfKind(ZoneText, RecordKinds)
            doc == input.yml
        IN  /\ Len(nsl) = Len(doc.nameservers)
            /\ Len(rec) = Len(doc.hosts)
            /\ \A n \in DOMAIN nsl :
                 nsl[n].target =
                   IF input.args.dont_abbrev
                   THEN DotJoin(BareLabel(doc.nameservers[n].hostname), doc.domainBase)
                   ELSE BareLabel(doc.nameservers[n].hostname)
            /\ \A n \in DOMAIN rec :
                 IF input.args.forward
                 THEN rec[n].ip = doc.hosts[n].ip
                 ELSE rec[n].target =
                        DotJoin(BareLabel(doc.hosts[n].hostname), doc.domainBase)
            /\ \A a, b \in DOMAIN ZoneText :
                 (ZoneText[a].k = "NS" /\ ZoneText[b].k \in RecordKinds) => a < b

\* the entry the data model names as primary: the first one that has the
\* master key, the one at index 0 when none has it
PrimaryIndex(nss) ==
    IF \E n \in DOMAIN nss : "master" \in DOMAIN nss[n]
    THEN CHOOSE n \in DOMAIN nss :
            /\ "master" \in DOMAIN nss[n]
            /\ \A m \in DOMAIN nss : "master" \in DOMAIN nss[m] => n <= m
    ELSE 1

\* C6: the origin nameserver of the SOA line is the bare label of the first
\* nameserver that has the master key (whatever its value), of the first
\* nameserver when none has it, written <label>.<domainBase> whatever the
\* abbreviation flag.
C6_PrimaryNameserver ==
    \A n \in DOMAIN Sink :
        Sink[n].k = "SOA" =>
            Sink[n].mname =
                DotJoin(BareLabel(input.yml.nameservers[
                            PrimaryIndex(input.yml.nameservers)].hostname),
                        input.yml.domainBase)

C6_Witness ==
    /\ Done /\ exitCode = 0
    /\ ~input.args.dont_abbrev
    /\ PrimaryIndex(input.yml.nameservers) = 2
    /\ input.yml.nameservers[2].master = FALSE
    /\ OfKind(Sink, {"SOA"}) # <<>>

\* normalize has returned
Normalized ==
    \/ pc \in {"open_output", "header_ttl", "header_soa", "header_timers",
               "forward_ns", "forward_host", "reverse_ns", "reverse_host",
               "close_output"}
    \/ Done /\ raised.fn \notin {"parse_yml", "normalize"}

\* C7: after normalization no nameserver or host hostname contains a ".":
\* each is the part of the input hostname before its first ".", the input
\* hostname itself when that has none, and the rule applied again changes
\* nothing.
C7_HostnamesBare ==
    Normalized =>
        /\ \A n \in DOMAIN definition.nameservers :
             LET h == definition.nameservers[n].hostname
                 h0 == input.yml.nameservers[n].hostname
             IN  /\ ~HasDot(h)
                 /\ h = BareLabel(h0)
                 /\ ~HasDot(h0) => h = h0
                 /\ HostnameRule(h) = h
        /\ \A n \in DOMAIN definition.hosts :
             LET h == definition.hosts[n].hostname
                 h0 == input.yml.hosts[n].hostname
             IN  /\ ~HasDot(h)
                 /\ h = BareLabel(h0)
                 /\ ~HasDot(h0) => h = h0
                 /\ HostnameRule(h) = h

C7_Witness ==
    /\ pc = "open_output"
    /\ \E n \in DOMAIN input.yml.nameservers :
         /\ Len(SelectSeq(input.yml.nameservers[n].hostname,
                          LAMBDA t : t = ".")) > 1
         /\ definition.nameservers[n].hostname = <<"ns2">>
    /\ \E n \in DOMAIN input.yml.hosts :
         /\ HasDot(input.yml.hosts[n].hostname)
         /\ definition.hosts[n].hostname = <<"mx">>
    /\ \E n \in DOMAIN input.yml.hosts : ~HasDot(input.yml.hosts[n].hostname)

WithoutOwner(lines) == [n \in DOMAIN lines |-> [lines[n] EXCEPT !.owner = <<>>]]

\* C8: in reverse generation the PTR target of every host is
\* <bare-hostname>.<domainBase> and is the one the run with the other
\* abbreviation flag writes; the two runs differ in the owner field only,
\* the full ip when dontAbbrev is set and the part after its last "." when
\* it is not.
C8_PtrTargetNeverAbbreviated ==
    input.args.reverse =>
        LET ptr == OfKind(Sink, {"PTR"})
            doc == input.yml
        IN  \A n \in DOMAIN ptr :
                LET other == ReverseRecord(definition.hosts[n], definition,
                                           ~input.args.dont_abbrev).handler
                    this == ReverseRecord(definition.hosts[n], definition,
                                          input.args.dont_abbrev).handler
                IN  /\ ptr[n].target =
                         DotJoin(BareLabel(doc.hosts[n].hostname), doc.domainBase)
                    /\ ptr[n].target = other[1].target
                    /\ WithoutOwner(this) = WithoutOwner(other)
                    /\ ptr[n].owner = IF input.args.dont_abbrev
                                      THEN doc.hosts[n].ip
                                      ELSE AfterLastDot(doc.hosts[n].ip)

C8_Witness ==
    /\ Done /\ exitCode = 0
    /\ input.args.reverse
    /\ ~input.args.dont_abbrev
    /\ \E n \in DOMAIN OfKind(Sink, {"PTR"}) :
         /\ HasDot(input.yml.hosts[n].ip)
         /\ HasDot(input.yml.hosts[n].hostname)
         /\ OfKind(Sink, {"PTR"})[n].owner = <<"7">>

\* C9: for a document that passed the fatal checks, normalization does not
\* raise.
C9_NormalizeCannotFail ==
    (Loaded /\ ~HasFatal(input.yml)) => raised.fn # "normalize"

\* C10: when the process ends the input handle is closed and a named output
\* file that was opened is closed.
C10_HandlesReleased ==
    Done => (ihandle # "open" /\ ohandle # "open")

====
